---- MODULE Spec2Model ----
(***************************************************************************)
(* Model of the incremental vector-store synchronizer                      *)
(* (app/vector_store_utils.py), of the request handlers that drive it      *)
(* (app/main.py) and of the per-company agent cache (app/agent_manager.py).*)
(*                                                                         *)
(* A PDF is abstracted by what extract_text_from_pdf and                   *)
(* split_text_into_documents make of it: "bad" raises in pdfplumber,       *)
(* "blank" has no page with text (zero documents), "v1" and "v2" are two   *)
(* different readable texts (one and two documents).  A FAISS store is the *)
(* bag of the documents embedded in it, kept as the number of copies of    *)
(* each (source file, text) it holds.                                      *)
(*                                                                         *)
(* vector_store_utils.py names the index directory relative to the working *)
(* directory and main.py relative to the package; the model takes the      *)
(* server to run from the project root, where both are one directory.      *)
(* The awaits of one build_or_update_vector_store call are merged into     *)
(* one suspension point, at the first extraction.                          *)
(***************************************************************************)
EXTENDS Integers, FiniteSets, Sequences, TLC

\* ------------------------------------------------------------ bounds ----
MaxCopies == 2      \* copies of one file's documents a store may hold
MaxRecords == 2     \* PDFFile rows of one company
MaxAgents == 3      \* agent objects constructed in one behaviour

\* --------------------------------------------------------- universes ----
Tenants == {1, 2}                       \* company ids
Files == {"A.pdf", "B.pdf"}             \* file names inside a company directory
Texts == {"v1", "v2"}                   \* readable contents
Contents == {"bad", "blank"} \cup Texts
NoFile == "none"
TooLarge == "too_large"                 \* an upload body over MAX_FILE_SIZE
Callers == {1, 2}                       \* concurrent get_agent requests

AGENT_TTL == 3600
TimePoints == {0, 1, AGENT_TTL - 1, AGENT_TTL, AGENT_TTL + 1}

Keys == Files \X Texts
EmptyStore == [k \in Keys |-> 0]

\* Fault input of one invocation: the operation that raises when the
\* invocation reaches it (os.makedirs, FAISS.load_local, the embedding
\* provider, save_local, the write of processed_files.json), or none.
Faults == {"none", "mkdir", "load", "embed", "save", "ledger"}

VARIABLES
    company,        \* Company rows: exists / model_name set / temperature set
    embeddings,     \* auth.embeddings is not None
    openai_api_key, \* os.getenv("OPENAI_API_KEY") is set
    pdf_records,    \* PDFFile rows: company -> filename -> number of rows
    disk,           \* company -> directories and files of that company
    agents,         \* AgentManager.agents
    last_used,      \* AgentManager.last_used
    next_agent,     \* identity of the next agent object constructed
    now,            \* time.time()
    task,           \* caller -> suspended get_agent coroutine
    result,         \* caller -> what its last get_agent call did
    call            \* the last build_or_update_vector_store invocation

vars == <<company, embeddings, openai_api_key, pdf_records, disk, agents,
          last_used, next_agent, now, task, result, call>>

\* ------------------------------------------------- extraction, stores ----
\* Number of Documents split_text_into_documents(extract_text_from_pdf(p))
\* produces for a file of content c.
NumDocs(c) == CASE c = "v1" -> 1 [] c = "v2" -> 2 [] OTHER -> 0

\* extract_text_from_pdf raises for a corrupt file and for a path that is
\* no longer there.
ExtractRaises(c) == c \in {NoFile, "bad"}

RECURSIVE SumDocs(_, _)
SumDocs(store, ks) ==
    IF ks = {} THEN 0
    ELSE LET k == CHOOSE x \in ks : TRUE
         IN store[k] * NumDocs(k[2]) + SumDocs(store, ks \ {k})

\* len(vector_store.index_to_docstore_id)
DocCount(store) == SumDocs(store, Keys)

is_valid_vector_store(store) == DocCount(store) # 0

get_vector_store_document_count(store) ==
    IF ~is_valid_vector_store(store) THEN 0 ELSE DocCount(store)

\* Source file names of the documents in a store.
Sources(store) == {f \in Files : \E x \in Texts : store[<<f, x>>] > 0}

\* glob(company_pdf_dir/*.pdf)
Glob(w) == {f \in Files : w.pdf_files[f] # NoFile}

load_processed_files(w) ==
    IF w.processed_files.exists THEN w.processed_files.files ELSE {}

\* A loop without the per-file try/except: one raising file loses the batch.
ExtractOkAbort(w, todo) ==
    IF \E f \in todo : ExtractRaises(w.pdf_files[f]) THEN {}
    ELSE todo

\* Files of todo whose extraction does not raise (the try body completes).
ExtractOk(w, todo) == {f \in todo : ~ExtractRaises(w.pdf_files[f])}

\* The documents of the files in ok, one copy each.
DocsOf(w, ok) ==
    [k \in Keys |-> IF k[1] \in ok /\ w.pdf_files[k[1]] = k[2] THEN 1 ELSE 0]

\* vector_store.add_documents(new_docs)
AddDocuments(store, docs) == [k \in Keys |-> store[k] + docs[k]]

\* A rebuild that adds to the store on disk instead of starting afresh.
FromDocumentsKeepOld(w, docs) == AddDocuments(w.index_faiss.docs, docs)

\* FAISS.from_documents(docs, embeddings): a brand-new store.
FromDocuments(w, docs) == docs

\* The set written by save_processed_files on the rebuild path (line 152).
RebuildLedger(pdf_files, ok) == pdf_files

\* processed_files.add placed before the extraction instead of after it.
UpdateLedgerAll(processed, new_pdfs, ok) == processed \cup new_pdfs

\* processed_files after the loop of the incremental path (lines 200-210).
UpdateLedger(processed, new_pdfs, ok) == processed \cup ok

\* A diff that ignores the ledger.
NewPdfsAll(pdf_files, processed) == pdf_files

\* new_pdfs (line 187)
NewPdfs(pdf_files, processed) == pdf_files \ processed

InBounds(store) == \A k \in Keys : store[k] <= MaxCopies

\* ------------------------------------ build_or_update_vector_store ----
NoIndex == [exists |-> FALSE, docs |-> EmptyStore]
NoLedger == [exists |-> FALSE, files |-> {}]
EmptyDisk == [company_pdf_dir |-> FALSE,
              pdf_files |-> [f \in Files |-> NoFile],
              vector_path |-> FALSE,
              index_faiss |-> NoIndex,
              processed_files |-> NoLedger]

\* What a finished invocation reports.
Finished(w, outcome, fault, path, store, ok, failed) ==
    [status |-> "finished", w |-> w, outcome |-> outcome, fault |-> fault,
     path |-> path, store |-> store, extracted |-> ok, failed |-> failed,
     todo |-> {}, processed |-> {}]

\* The coroutine parked at its first asyncio.to_thread.
Suspended(w, path, todo, store, processed) ==
    [status |-> "suspended", w |-> w, outcome |-> "none", fault |-> "none",
     path |-> path, store |-> store, extracted |-> {}, failed |-> {},
     todo |-> todo, processed |-> processed]

\* os.makedirs(vector_path, exist_ok=True) raises (lines 80-86); it cannot
\* when the directory is already there.
MkdirFails(w, fl) == ~w.vector_path /\ fl = "mkdir"

\* The directory check alone, without the check of the glob result.
NoPdfsDirOnly(w) == ~w.company_pdf_dir

\* The precondition checks of lines 88-100: the company directory is
\* missing, or glob finds no PDF in it.
NoPdfs(w) == ~w.company_pdf_dir \/ Glob(w) = {}

\* Lines 70-196: everything up to the first await.
RECURSIVE SyncStart(_, _, _)
SyncStart(w, rebuild, fl) ==
    IF MkdirFails(w, fl)
    THEN Finished(w, "Runtime", "mkdir", "none", EmptyStore, {}, {})
    ELSE
    LET w1 == [w EXCEPT !.vector_path = TRUE]
        pdf_files == Glob(w1)
    IN
    IF NoPdfs(w1)
    THEN Finished(w1, "NotFound", "none", "none", EmptyStore, {}, {})
    ELSE IF rebuild \/ ~w1.index_faiss.exists
    THEN Suspended(w1, "rebuild", pdf_files, EmptyStore, {})
    ELSE IF fl = "load"
    THEN Finished(w1, "Runtime", "load", "none", EmptyStore, {}, {})
    ELSE
    LET vector_store == w1.index_faiss.docs
        processed == load_processed_files(w1)
        new_pdfs == NewPdfs(pdf_files, processed)
    IN
    IF new_pdfs = {}
    THEN IF ~is_valid_vector_store(vector_store)
         THEN SyncStart(w1, TRUE, fl)
         ELSE Finished(w1, "ok", "none", "noop", vector_store, {}, {})
    ELSE Suspended(w1, "update", new_pdfs, vector_store, processed)

\* A rebuild path without the two emptiness checks of lines 115-125: it
\* saves whatever was extracted, nothing included.
ResumeRebuildUnchecked(w, fr, fl) ==
    LET ok == ExtractOk(w, fr.todo)
        failed == fr.todo \ ExtractOk(w, fr.todo)
        built == FromDocuments(w, DocsOf(w, ok))
        w2 == [w EXCEPT !.vector_path = TRUE,
                        !.index_faiss = [exists |-> TRUE, docs |-> built],
                        !.processed_files =
                            [exists |-> TRUE,
                             files |-> RebuildLedger(fr.todo, ok)]]
    IN
    IF fl \in {"embed", "save", "ledger"}
    THEN Finished(w, "Runtime", fl, "rebuild", EmptyStore, ok, failed)
    ELSE Finished(w2, "ok", "none", "rebuild", built, ok, failed)

\* Lines 104-154: the rebuild path from the extraction loop on.
ResumeRebuild(w, fr, fl) ==
    LET ok == ExtractOk(w, fr.todo)
        failed == fr.todo \ ExtractOk(w, fr.todo)
        docs == DocsOf(w, ok)
        built == FromDocuments(w, docs)
        w1 == [w EXCEPT !.vector_path = TRUE,
                        !.index_faiss = [exists |-> TRUE, docs |-> built]]
        w2 == [w1 EXCEPT !.processed_files =
                   [exists |-> TRUE, files |-> RebuildLedger(fr.todo, ok)]]
    IN
    IF DocCount(docs) = 0
    THEN Finished(w, "Runtime", "none", "rebuild", EmptyStore, ok, failed)
    ELSE IF fl = "embed"
    THEN Finished(w, "Runtime", "embed", "rebuild", EmptyStore, ok, failed)
    ELSE IF fl = "save"
    THEN Finished(w, "Runtime", "save", "rebuild", EmptyStore, ok, failed)
    ELSE IF fl = "ledger"
    THEN Finished(w1, "OSError", "ledger", "rebuild", EmptyStore, ok, failed)
    ELSE Finished(w2, "ok", "none", "rebuild", built, ok, failed)

\* Lines 198-235: the incremental path from the extraction loop on.
ResumeUpdate(w, fr, fl) ==
    LET ok == ExtractOk(w, fr.todo)
        failed == fr.todo \ ExtractOk(w, fr.todo)
        new_docs == DocsOf(w, ok)
        processed == UpdateLedger(fr.processed, fr.todo, ok)
        merged == AddDocuments(fr.store, new_docs)
        w1 == [w EXCEPT !.vector_path = TRUE,
                        !.index_faiss = [exists |-> TRUE, docs |-> merged]]
        w2 == [w1 EXCEPT !.processed_files =
                   [exists |-> TRUE, files |-> processed]]
    IN
    IF DocCount(new_docs) = 0
    THEN Finished(w, "ok", "none", "update", fr.store, ok, failed)
    ELSE IF fl = "embed"
    THEN Finished(w, "Runtime", "embed", "update", EmptyStore, ok, failed)
    ELSE IF fl = "save"
    THEN Finished(w, "Runtime", "save", "update", EmptyStore, ok, failed)
    ELSE IF fl = "ledger"
    THEN Finished(w1, "OSError", "ledger", "update", EmptyStore, ok, failed)
    ELSE Finished(w2, "ok", "none", "update", merged, ok, failed)

\* The coroutine from its first await to its return.  The extraction of the
\* listed files reads the company directory as it is when the coroutine
\* resumes.
SyncResume(w, fr, fl) ==
    IF fr.path = "rebuild" THEN ResumeRebuild(w, fr, fl)
    ELSE ResumeUpdate(w, fr, fl)

\* An invocation r under fault input fl is explored when the fault named
\* by fl is one the invocation ran into (a fault on an operation it never
\* reaches changes nothing) and the store it leaves stays within MaxCopies.
Admissible(r, fl) == r.fault = fl /\ InBounds(r.w.index_faiss.docs)

\* One invocation that no other request interleaves with.
Sync(w, rebuild, fl) ==
    LET fr == SyncStart(w, rebuild, fl)
    IN IF fr.status = "suspended" THEN SyncResume(fr.w, fr, fl) ELSE fr

\* ------------------------------------------------------ agent cache ----
Drop(map, t) == [x \in (DOMAIN map) \ {t} |-> map[x]]

Put(map, t, v) == [x \in (DOMAIN map) \cup {t} |-> IF x = t THEN v ELSE map[x]]

\* AgentManager.get_agent_info: None without a cache entry or a company
\* record; otherwise the record is built from company columns and from the
\* keys 'created_at', 'last_used' and 'agent' of the cache entry, and reading
\* a key the entry does not have raises KeyError.
AgentInfo(ag, t, found) ==
    IF t \notin DOMAIN ag THEN "none"
    ELSE IF ~found THEN "none"
    ELSE IF {"created_at", "last_used", "agent"} \subseteq DOMAIN ag[t]
         THEN "info"
         ELSE "key_error"

\* A removal that leaves the agent in the map.
RemovedAgentsKept(ag, t) == ag

\* AgentManager._remove_agent
RemovedAgents(ag, t) == IF t \in DOMAIN ag THEN Drop(ag, t) ELSE ag

\* A removal that leaves the last-used time behind.
RemovedLastUsedKept(ag, lu, t) == lu

RemovedLastUsed(ag, lu, t) ==
    IF t \in DOMAIN ag /\ t \in DOMAIN lu THEN Drop(lu, t) ELSE lu

\* AgentManager.force_remove_agent, as the handlers call it.
ForceRemoved(t) ==
    /\ agents' = RemovedAgents(agents, t)
    /\ last_used' = RemovedLastUsed(agents, last_used, t)

\* The comparison with <= in place of <.
IsFreshInclusive(lu, t, tm) ==
    tm - (IF t \in DOMAIN lu THEN lu[t] ELSE 0) <= AGENT_TTL

\* time.time() - self.last_used.get(company_id, 0) < self.agent_ttl
IsFresh(lu, t, tm) ==
    tm - (IF t \in DOMAIN lu THEN lu[t] ELSE 0) < AGENT_TTL

\* A sweep that already evicts an entry whose age equals agent_ttl.
to_remove_inclusive(lu, tm) == {x \in DOMAIN lu : tm - lu[x] >= AGENT_TTL}

\* AgentManager._cleanup_old_agents: the ids whose last use is more than
\* agent_ttl old.
to_remove(lu, tm) == {x \in DOMAIN lu : tm - lu[x] > AGENT_TTL}

\* self.agents[company_id] of line 313 raises KeyError for an id that is in
\* last_used and not in agents.
CleanupRaises(ag, lu, tm) == \E x \in to_remove(lu, tm) : x \notin DOMAIN ag

CleanedAgents(ag, lu, tm) ==
    [x \in (DOMAIN ag) \ to_remove(lu, tm) |-> ag[x]]

CleanedLastUsed(ag, lu, tm) ==
    [x \in (DOMAIN lu) \ (to_remove(lu, tm) \cap DOMAIN ag) |-> lu[x]]

\* The validations of _create_agent that raise before the vector store is
\* touched (lines 91-116).
CreateAgentInvalid(t) ==
    \/ ~embeddings
    \/ ~company[t].model_name
    \/ ~company[t].temperature
    \/ ~openai_api_key
    \/ ~disk[t].company_pdf_dir
    \/ Glob(disk[t]) = {}

\* A get_agent coroutine: idle, or parked inside build_or_update_vector_store
\* with the locals it holds.  absent: the company had no entry when the call
\* began (otherwise the call evicted an expired one); raced: another call
\* for the same company, begun on an absent entry too, was in flight at
\* some time during this one.
IdleTask == [pc |-> "idle", company |-> 0, path |-> "none", todo |-> {},
             store |-> EmptyStore, processed |-> {}, absent |-> FALSE,
             raced |-> FALSE]

\* What a caller's last get_agent call did: "hit" and "created" return the
\* agent, "failed" raises.  expired: the call evicted an expired entry.
NoResult == [kind |-> "none", company |-> 0, agent |-> 0, raced |-> FALSE,
             expired |-> FALSE]

\* ------------------------------------------------- request handlers ----
NoCall == [kind |-> "none", company |-> 0, rebuild |-> FALSE,
           path |-> "none", outcome |-> "none", fault |-> "none",
           store |-> EmptyStore, extracted |-> {}, failed |-> {},
           stale |-> FALSE]

\* The record of one invocation r for company t.  stale: when the handler
\* started, the persisted index held documents of a file that is not in the
\* company directory when the invocation lists it.
SyncCall(t, rebuild, r, w0) ==
    [kind |-> "sync", company |-> t, rebuild |-> rebuild,
     path |-> r.path, outcome |-> r.outcome, fault |-> r.fault,
     store |-> r.store, extracted |-> r.extracted, failed |-> r.failed,
     stale |-> Sources(disk[t].index_faiss.docs) \ Glob(w0) # {}]

RECURSIVE SumRecords(_, _)
SumRecords(recs, fs) ==
    IF fs = {} THEN 0
    ELSE LET f == CHOOSE x \in fs : TRUE
         IN recs[f] + SumRecords(recs, fs \ {f})

\* db.query(PDFFile).filter(PDFFile.company_id == company_id).count()
pdf_count(t) == SumRecords(pdf_records[t], Files)

\* shutil.rmtree(vector_store_path) when it exists
Rmtree(w) == [w EXCEPT !.vector_path = FALSE, !.index_faiss = NoIndex,
                       !.processed_files = NoLedger]

\* POST /companies/{id}/pdfs (main.py upload_pdf).  A body larger than
\* MAX_FILE_SIZE is found after open(file_path, "wb") has truncated the
\* file, which leaves an empty file that pdfplumber cannot open.
upload_pdf(t, f, c, fl) ==
    /\ company[t].exists
    /\ LET big == c = TooLarge
           w0 == [disk[t] EXCEPT !.company_pdf_dir = TRUE,
                                 !.pdf_files[f] = IF big THEN "bad" ELSE c]
           r == Sync(w0, TRUE, fl)
       IN IF big
          THEN /\ disk' = [disk EXCEPT ![t] = w0]
               /\ call' = NoCall
               /\ UNCHANGED <<pdf_records, agents, last_used>>
          ELSE /\ pdf_count(t) < MaxRecords
               /\ pdf_records' = [pdf_records EXCEPT ![t][f] = @ + 1]
               /\ IF embeddings
                  THEN /\ Admissible(r, fl)
                       /\ disk' = [disk EXCEPT ![t] = r.w]
                       /\ call' = SyncCall(t, TRUE, r, w0)
                       /\ IF r.outcome = "ok" THEN ForceRemoved(t)
                          ELSE UNCHANGED <<agents, last_used>>
                  ELSE /\ disk' = [disk EXCEPT ![t] = w0]
                       /\ call' = NoCall
                       /\ UNCHANGED <<agents, last_used>>
    /\ UNCHANGED <<company, embeddings, openai_api_key, next_agent, now,
                   task, result>>

\* DELETE /companies/{id}/pdfs/{filename} (main.py remove_pdf)
remove_pdf(t, f, fl) ==
    /\ company[t].exists
    /\ pdf_records[t][f] > 0
    /\ pdf_records' = [pdf_records EXCEPT ![t][f] = @ - 1]
    /\ LET w0 == [disk[t] EXCEPT !.pdf_files[f] = NoFile]
           w1 == IF w0.vector_path THEN Rmtree(w0) ELSE w0
           remaining_pdfs == pdf_count(t) - 1
           r == Sync(w1, TRUE, fl)
       IN IF ~embeddings
          THEN /\ disk' = [disk EXCEPT ![t] = w0]
               /\ call' = NoCall
               /\ UNCHANGED <<agents, last_used>>
          ELSE IF remaining_pdfs > 0
          THEN /\ Admissible(r, fl)
               /\ disk' = [disk EXCEPT ![t] = r.w]
               /\ call' = SyncCall(t, TRUE, r, w0)
               /\ IF r.outcome = "ok" THEN ForceRemoved(t)
                  ELSE UNCHANGED <<agents, last_used>>
          ELSE /\ disk' = [disk EXCEPT ![t] = w1]
               /\ call' = NoCall
               /\ ForceRemoved(t)
    /\ UNCHANGED <<company, embeddings, openai_api_key, next_agent, now,
                   task, result>>

\* POST /companies/{id}/ask (main.py ask_question), up to the answer.
ask_question(t, fl) ==
    /\ company[t].exists
    /\ pdf_count(t) > 0
    /\ embeddings
    /\ LET r == Sync(disk[t], FALSE, fl)
       IN /\ Admissible(r, fl)
          /\ disk' = [disk EXCEPT ![t] = r.w]
          /\ call' = SyncCall(t, FALSE, r, disk[t])
    /\ UNCHANGED <<company, embeddings, openai_api_key, pdf_records, agents,
                   last_used, next_agent, now, task, result>>

\* GET /companies/{id}/vector-store-status (main.py get_vector_store_status)
get_vector_store_status(t, fl) ==
    /\ company[t].exists
    /\ embeddings
    /\ LET r == Sync(disk[t], FALSE, fl)
       IN /\ Admissible(r, fl)
          /\ disk' = [disk EXCEPT ![t] = r.w]
          /\ call' = SyncCall(t, FALSE, r, disk[t])
    /\ UNCHANGED <<company, embeddings, openai_api_key, pdf_records, agents,
                   last_used, next_agent, now, task, result>>

\* POST /companies/{id}/rebuild-vector-store (main.py rebuild_vector_store)
rebuild_vector_store(t, fl) ==
    /\ company[t].exists
    /\ embeddings
    /\ pdf_count(t) > 0
    /\ LET r == Sync(disk[t], TRUE, fl)
       IN /\ Admissible(r, fl)
          /\ disk' = [disk EXCEPT ![t] = r.w]
          /\ call' = SyncCall(t, TRUE, r, disk[t])
          /\ IF r.outcome = "ok" THEN ForceRemoved(t)
             ELSE UNCHANGED <<agents, last_used>>
    /\ UNCHANGED <<company, embeddings, openai_api_key, pdf_records,
                   next_agent, now, task, result>>

\* vector_store_utils.delete_pdf_and_reindex: the file is removed when it is
\* there and the index is rebuilt in place; no caller in main.py, so no row
\* and no cache entry changes with it.
delete_pdf_and_reindex(t, f, fl) ==
    /\ company[t].exists
    /\ embeddings
    /\ LET w0 == [disk[t] EXCEPT !.pdf_files[f] = NoFile]
           r == Sync(w0, TRUE, fl)
       IN /\ Admissible(r, fl)
          /\ disk' = [disk EXCEPT ![t] = r.w]
          /\ call' = SyncCall(t, TRUE, r, w0)
    /\ UNCHANGED <<company, embeddings, openai_api_key, pdf_records, agents,
                   last_used, next_agent, now, task, result>>

\* Lines 69-83 of get_agent once build_or_update_vector_store has finished
\* with r: _create_agent raises (nothing is stored) or returns a new agent
\* object, which is stored over whatever entry is there, before the sweep.
Created(c, t, r, ag, lu, raced, expired) ==
    IF r.outcome # "ok" \/ DocCount(r.store) = 0
    THEN /\ agents' = ag
         /\ last_used' = lu
         /\ result' = [result EXCEPT ![c] =
                [kind |-> "failed", company |-> t, agent |-> 0,
                 raced |-> raced, expired |-> expired]]
         /\ UNCHANGED next_agent
    ELSE LET ag1 == Put(ag, t, [agent |-> next_agent, created_at |-> now])
             lu1 == Put(lu, t, now)
         IN /\ next_agent <= MaxAgents
            /\ next_agent' = next_agent + 1
            /\ agents' = CleanedAgents(ag1, lu1, now)
            /\ last_used' = CleanedLastUsed(ag1, lu1, now)
            /\ result' = [result EXCEPT ![c] =
                  [kind |-> IF CleanupRaises(ag1, lu1, now) THEN "failed"
                            ELSE "created",
                   company |-> t, agent |-> next_agent, raced |-> raced,
                   expired |-> expired]]

\* The calls in flight for company t that began on an absent entry.
Peers(c, t) ==
    {d \in Callers \ {c} : /\ task[d].pc = "creating"
                            /\ task[d].company = t
                            /\ task[d].absent}

\* AgentManager.get_agent from its call to its first suspension, or to its
\* return when it does not suspend.
get_agent(c, t, fl) ==
    /\ task[c].pc = "idle"
    /\ company[t].exists
    /\ LET absent == t \notin DOMAIN agents
           hit == ~absent /\ IsFresh(last_used, t, now)
           ag == RemovedAgents(agents, t)
           lu == RemovedLastUsed(agents, last_used, t)
           fr == SyncStart(disk[t], FALSE, fl)
           raced == absent /\ Peers(c, t) # {}
           marked == [d \in Callers |->
                        IF raced /\ d \in Peers(c, t)
                        THEN [task[d] EXCEPT !.raced = TRUE] ELSE task[d]]
       IN IF hit
          THEN /\ fl = "none"
               /\ last_used' = Put(last_used, t, now)
               /\ result' = [result EXCEPT ![c] =
                     [kind |-> "hit", company |-> t,
                      agent |-> agents[t].agent, raced |-> FALSE,
                      expired |-> FALSE]]
               /\ UNCHANGED <<agents, next_agent, disk, task>>
          ELSE IF CreateAgentInvalid(t)
          THEN /\ fl = "none"
               /\ agents' = ag
               /\ last_used' = lu
               /\ result' = [result EXCEPT ![c] =
                     [kind |-> "failed", company |-> t, agent |-> 0,
                      raced |-> raced, expired |-> ~absent]]
               /\ task' = marked
               /\ UNCHANGED <<next_agent, disk>>
          ELSE IF fr.status = "suspended"
          THEN /\ fl = "none"
               /\ agents' = ag
               /\ last_used' = lu
               /\ disk' = [disk EXCEPT ![t] = fr.w]
               /\ task' = [marked EXCEPT ![c] =
                     [pc |-> "creating", company |-> t, path |-> fr.path,
                      todo |-> fr.todo, store |-> fr.store,
                      processed |-> fr.processed, absent |-> absent,
                      raced |-> raced]]
               /\ result' = [result EXCEPT ![c] =
                     [kind |-> "pending", company |-> t, agent |-> 0,
                      raced |-> FALSE, expired |-> ~absent]]
               /\ UNCHANGED next_agent
          ELSE /\ Admissible(fr, fl)
               /\ disk' = [disk EXCEPT ![t] = fr.w]
               /\ task' = marked
               /\ Created(c, t, fr, ag, lu, raced, ~absent)
    /\ UNCHANGED <<company, embeddings, openai_api_key, pdf_records, now, call>>

\* The same coroutine from the return of asyncio.to_thread to its return.
get_agent_resume(c, fl) ==
    /\ task[c].pc = "creating"
    /\ LET t == task[c].company
           fr == Suspended(disk[t], task[c].path, task[c].todo,
                           task[c].store, task[c].processed)
           r == SyncResume(disk[t], fr, fl)
       IN /\ Admissible(r, fl)
          /\ disk' = [disk EXCEPT ![t] = r.w]
          /\ task' = [task EXCEPT ![c] = IdleTask]
          /\ Created(c, t, r, agents, last_used, task[c].raced,
                     ~task[c].absent)
    /\ UNCHANGED <<company, embeddings, openai_api_key, pdf_records, now, call>>

\* time.time() moves on between two steps of the event loop.
Tick ==
    /\ \E tm \in TimePoints : tm > now /\ now' = tm
    /\ UNCHANGED <<company, embeddings, openai_api_key, pdf_records, disk,
                   agents, last_used, next_agent, task, result, call>>

\* What an AgentManager method that returns a bool returned to caller c.
Returned(c, t, value) ==
    result' = [result EXCEPT ![c] =
        [kind |-> IF value THEN "returned_true" ELSE "returned_false",
         company |-> t, agent |-> 0, raced |-> FALSE, expired |-> FALSE]]

\* POST /admin/agents/{id}/force-remove (main.py force_remove_agent) and
\* AgentManager.force_remove_agent under it.
force_remove_agent(c, t) ==
    /\ task[c].pc = "idle"
    /\ company[t].exists
    /\ ForceRemoved(t)
    /\ Returned(c, t, t \in DOMAIN agents)
    /\ UNCHANGED <<company, embeddings, openai_api_key, pdf_records, disk,
                   next_agent, now, task, call>>

\* AgentManager.force_update_agent
force_update_agent(c, t) ==
    /\ task[c].pc = "idle"
    /\ ForceRemoved(t)
    /\ Returned(c, t, t \in DOMAIN agents)
    /\ UNCHANGED <<company, embeddings, openai_api_key, pdf_records, disk,
                   next_agent, now, task, call>>

\* AgentManager.memories: initialised empty (line 22); get_agent and
\* _create_agent never put the ConversationBufferMemory they build into it.
memories == << >>

\* AgentManager.reset_agent_memory
reset_agent_memory(t) == t \in DOMAIN memories

\* POST /companies/{id}/agent/reset (main.py reset_agent)
reset_agent(c, t) ==
    /\ task[c].pc = "idle"
    /\ company[t].exists
    /\ Returned(c, t, reset_agent_memory(t))
    /\ UNCHANGED <<company, embeddings, openai_api_key, pdf_records, disk,
                   agents, last_used, next_agent, now, task, call>>

\* shutil.rmtree of a directory, which may raise: fails names the
\* directories whose removal raised (the error is logged and swallowed).
RmtreeErrors == SUBSET {"vector", "pdf"}

\* DELETE /companies/{id}: the company's rows, its two directories, its
\* cached agent and its record.  It has no await.
remove_company(t, fails) ==
    /\ company[t].exists
    /\ ("vector" \in fails) => disk[t].vector_path
    /\ ("pdf" \in fails) => disk[t].company_pdf_dir
    /\ pdf_records' = [pdf_records EXCEPT ![t] = [f \in Files |-> 0]]
    /\ LET w1 == IF disk[t].vector_path /\ "vector" \notin fails
                 THEN Rmtree(disk[t]) ELSE disk[t]
           w2 == IF w1.company_pdf_dir /\ "pdf" \notin fails
                 THEN [w1 EXCEPT !.company_pdf_dir = FALSE,
                                 !.pdf_files = [f \in Files |-> NoFile]]
                 ELSE w1
       IN disk' = [disk EXCEPT ![t] = w2]
    /\ IF embeddings THEN ForceRemoved(t)
       ELSE UNCHANGED <<agents, last_used>>
    /\ company' = [company EXCEPT ![t].exists = FALSE]
    /\ call' = NoCall
    /\ UNCHANGED <<embeddings, openai_api_key, next_agent, now, task, result>>

\* GET vector-store-status of caller c up to the first await of
\* build_or_update_vector_store(rebuild=False), or to its return when the
\* invocation has nothing to extract.
get_vector_store_status_start(c, t) ==
    /\ task[c].pc = "idle"
    /\ company[t].exists
    /\ embeddings
    /\ LET fr == SyncStart(disk[t], FALSE, "none")
       IN /\ disk' = [disk EXCEPT ![t] = fr.w]
          /\ IF fr.status = "suspended"
             THEN /\ task' = [task EXCEPT ![c] =
                        [pc |-> "syncing", company |-> t, path |-> fr.path,
                         todo |-> fr.todo, store |-> fr.store,
                         processed |-> fr.processed, absent |-> FALSE,
                         raced |-> FALSE]]
                  /\ result' = [result EXCEPT ![c] =
                        [kind |-> "pending", company |-> t, agent |-> 0,
                         raced |-> FALSE, expired |-> FALSE]]
                  /\ UNCHANGED call
             ELSE /\ call' = SyncCall(t, FALSE, fr, disk[t])
                  /\ result' = [result EXCEPT ![c] =
                        [kind |-> IF fr.outcome = "ok" THEN "synced"
                                  ELSE "failed",
                         company |-> t, agent |-> 0, raced |-> FALSE,
                         expired |-> FALSE]]
                  /\ UNCHANGED task
    /\ UNCHANGED <<company, embeddings, openai_api_key, pdf_records, agents,
                   last_used, next_agent, now>>

\* The same request from the return of asyncio.to_thread to its response.
\* raced: the index on disk is no longer the one this invocation loaded.
get_vector_store_status_resume(c, fl) ==
    /\ task[c].pc = "syncing"
    /\ LET t == task[c].company
           fr == Suspended(disk[t], task[c].path, task[c].todo,
                           task[c].store, task[c].processed)
           r == SyncResume(disk[t], fr, fl)
       IN /\ Admissible(r, fl)
          /\ disk' = [disk EXCEPT ![t] = r.w]
          /\ call' = SyncCall(t, FALSE, r, disk[t])
          /\ result' = [result EXCEPT ![c] =
                [kind |-> IF r.outcome = "ok" THEN "synced" ELSE "failed",
                 company |-> t, agent |-> 0,
                 raced |-> disk[t].index_faiss.docs # task[c].store,
                 expired |-> FALSE]]
    /\ task' = [task EXCEPT ![c] = IdleTask]
    /\ UNCHANGED <<company, embeddings, openai_api_key, pdf_records, agents,
                   last_used, next_agent, now>>

\* ----------------------------------------------------- specification ----
\* One company with no directory yet; the embeddings provider was or was
\* not initialised at import time (auth.py 29-37).
Init ==
    /\ company = [t \in Tenants |->
                    [exists |-> t = 1, model_name |-> TRUE,
                     temperature |-> TRUE]]
    /\ embeddings \in BOOLEAN
    /\ openai_api_key = TRUE
    /\ pdf_records = [t \in Tenants |-> [f \in Files |-> 0]]
    /\ disk = [t \in Tenants |-> EmptyDisk]
    /\ agents = << >>
    /\ last_used = << >>
    /\ next_agent = 1
    /\ now = 0
    /\ task = [c \in Callers |-> IdleTask]
    /\ result = [c \in Callers |-> NoResult]
    /\ call = NoCall

Next ==
    \/ \E t \in Tenants, f \in Files, c \in Contents \cup {TooLarge},
          fl \in Faults : upload_pdf(t, f, c, fl)
    \/ \E t \in Tenants, f \in Files, fl \in Faults : remove_pdf(t, f, fl)
    \/ \E t \in Tenants, fl \in Faults : ask_question(t, fl)
    \/ \E t \in Tenants, fl \in Faults : get_vector_store_status(t, fl)
    \/ \E t \in Tenants, fl \in Faults : rebuild_vector_store(t, fl)

Spec == Init /\ [][Next]_vars

\* The handlers together with the library entry point that deletes a file
\* and rebuilds without wiping the index directory first.
NextReindex ==
    \/ \E t \in Tenants, f \in Files, c \in Contents \cup {TooLarge},
          fl \in Faults : upload_pdf(t, f, c, fl)
    \/ \E t \in Tenants, f \in Files, fl \in Faults :
          delete_pdf_and_reindex(t, f, fl)
    \/ \E t \in Tenants, f \in Files, fl \in Faults : remove_pdf(t, f, fl)
    \/ \E t \in Tenants, fl \in Faults : rebuild_vector_store(t, fl)

SpecReindex == Init /\ [][NextReindex]_vars

\* Uploads of well-formed or corrupt PDFs whose rebuild passes or fails at
\* the embedding provider.
UploadPdfs ==
    \E t \in Tenants, f \in Files, c \in Texts \cup {"bad"},
       fl \in {"none", "embed"} : upload_pdf(t, f, c, fl)

\* The agent cache under concurrent questions, with uploads in between.
NextAgent ==
    \/ UploadPdfs
    \/ \E c \in Callers, t \in Tenants, fl \in Faults : get_agent(c, t, fl)
    \/ \E c \in Callers, fl \in Faults : get_agent_resume(c, fl)

SpecAgent == Init /\ [][NextAgent]_vars

\* The agent cache of one caller as time passes, with uploads in between.
NextTTL ==
    \/ UploadPdfs
    \/ \E t \in Tenants, fl \in Faults : get_agent(1, t, fl)
    \/ \E fl \in Faults : get_agent_resume(1, fl)
    \/ Tick

SpecTTL == Init /\ [][NextTTL]_vars

\* Uploads under one file name.
UploadOne ==
    \E t \in Tenants, c \in Texts \cup {"bad"}, fl \in {"none", "embed"} :
        upload_pdf(t, "A.pdf", c, fl)

\* GET /admin/agents/{company_id}/info: 404 for an unknown company (not
\* modelled, as in the other handlers), 404 when get_agent_info returns None,
\* 500 when it raises, the record otherwise.
get_agent_info(c, t) ==
    /\ task[c].pc = "idle"
    /\ company[t].exists
    /\ result' = [result EXCEPT ![c] =
          [kind |-> AgentInfo(agents, t, company[t].exists),
           company |-> t,
           agent |-> IF t \in DOMAIN agents THEN agents[t].agent ELSE 0,
           raced |-> FALSE, expired |-> FALSE]]
    /\ UNCHANGED <<company, embeddings, openai_api_key, pdf_records, disk,
                   agents, last_used, next_agent, now, task, call>>

\* The agent cache of one caller with the admin operations on it.
NextCache ==
    \/ UploadOne
    \/ \E t \in Tenants, fl \in Faults : get_agent(1, t, fl)
    \/ \E fl \in Faults : get_agent_resume(1, fl)
    \/ Tick
    \/ \E t \in Tenants : force_remove_agent(1, t)
    \/ \E t \in Tenants : force_update_agent(1, t)
    \/ \E t \in Tenants : reset_agent(1, t)

SpecCache == Init /\ [][NextCache]_vars

\* The agent cache of one caller with the admin's inspection of it.
NextInfo ==
    \/ UploadOne
    \/ \E t \in Tenants, fl \in Faults : get_agent(1, t, fl)
    \/ \E fl \in Faults : get_agent_resume(1, fl)
    \/ Tick
    \/ \E t \in Tenants : force_remove_agent(1, t)
    \/ \E t \in Tenants : get_agent_info(1, t)

SpecInfo == Init /\ [][NextInfo]_vars

\* A request handler for company t that calls build_or_update_vector_store.
SyncHandler(t) ==
    \/ \E f \in Files, c \in Contents, fl \in Faults : upload_pdf(t, f, c, fl)
    \/ \E f \in Files, fl \in Faults : remove_pdf(t, f, fl)
    \/ \E fl \in Faults : ask_question(t, fl)
    \/ \E fl \in Faults : get_vector_store_status(t, fl)
    \/ \E fl \in Faults : rebuild_vector_store(t, fl)

\* Uploads of readable PDFs whose rebuild passes.
UploadReadable ==
    \E t \in Tenants, f \in Files : upload_pdf(t, f, "v1", "none")

\* The handlers that change or rebuild a company's documents, with one
\* caller asking the company's agent in between.
NextLifecycle ==
    \/ UploadReadable
    \/ \E t \in Tenants, f \in Files, fl \in {"none", "embed"} :
          remove_pdf(t, f, fl)
    \/ \E t \in Tenants, fl \in {"none", "embed"} :
          get_vector_store_status(t, fl)
    \/ \E t \in Tenants, fl \in {"none", "embed"} :
          rebuild_vector_store(t, fl)
    \/ \E t \in Tenants, fl \in Faults : get_agent(1, t, fl)
    \/ \E fl \in Faults : get_agent_resume(1, fl)
    \/ \E t \in Tenants, fails \in RmtreeErrors : remove_company(t, fails)

SpecLifecycle == Init /\ [][NextLifecycle]_vars

\* Two companies after create_company: each has its row and its (empty) PDF
\* directory; the agent pre-warm of create_company found no PDF and failed.
InitTenants ==
    /\ company = [t \in Tenants |->
                    [exists |-> TRUE, model_name |-> TRUE,
                     temperature |-> TRUE]]
    /\ embeddings = TRUE
    /\ openai_api_key = TRUE
    /\ pdf_records = [t \in Tenants |-> [f \in Files |-> 0]]
    /\ disk = [t \in Tenants |-> [EmptyDisk EXCEPT !.company_pdf_dir = TRUE]]
    /\ agents = << >>
    /\ last_used = << >>
    /\ next_agent = 1
    /\ now = 0
    /\ task = [c \in Callers |-> IdleTask]
    /\ result = [c \in Callers |-> NoResult]
    /\ call = NoCall

\* Both companies upload (an upload of company 2 may fail at the embeddings
\* provider and leave a PDF without an index), ask for their agent and are
\* administered by one caller while time passes up to and beyond the TTL.
NextTenants ==
    \/ \E t \in Tenants : upload_pdf(t, "A.pdf", "v1", "none")
    \/ upload_pdf(2, "A.pdf", "v1", "embed")
    \/ \E t \in Tenants, fl \in Faults : get_agent(1, t, fl)
    \/ \E fl \in Faults : get_agent_resume(1, fl)
    \/ Tick /\ now' >= AGENT_TTL
    \/ \E t \in Tenants : force_remove_agent(1, t)
    \/ \E t \in Tenants : force_update_agent(1, t)

SpecTenants == InitTenants /\ [][NextTenants]_vars

\* The agent cache under concurrent questions of both callers and admin
\* operations while time passes beyond the TTL.
NextInterleaved ==
    \/ \E t \in Tenants : upload_pdf(t, "A.pdf", "v1", "none")
    \/ upload_pdf(2, "A.pdf", "v1", "embed")
    \/ \E c \in Callers, t \in Tenants, fl \in {"none", "embed"} :
          get_agent(c, t, fl)
    \/ \E c \in Callers, fl \in {"none", "embed"} :
          get_agent_resume(c, fl)
    \/ Tick /\ now' > AGENT_TTL
    \/ \E t \in Tenants : force_remove_agent(2, t)
    \/ \E t \in Tenants : force_update_agent(2, t)

SpecInterleaved == InitTenants /\ [][NextInterleaved]_vars

\* The directory states build_or_update_vector_store can be called on: any
\* PDFs in the company directory, no index.faiss or one holding any stored
\* documents (none included, the case line 192 tests for), no
\* processed_files.json or one naming any files.
DiskStates ==
    {[company_pdf_dir |-> TRUE, pdf_files |-> p, vector_path |-> TRUE,
      index_faiss |-> i, processed_files |-> l] :
        p \in [Files -> {NoFile, "bad", "blank", "v1"}],
        i \in {NoIndex} \cup
              {[exists |-> TRUE, docs |-> d] : d \in [Keys -> 0..1]},
        l \in {NoLedger} \cup
              {[exists |-> TRUE, files |-> s] : s \in SUBSET Files}}

InitSync ==
    /\ company = [t \in Tenants |->
                    [exists |-> t = 1, model_name |-> TRUE,
                     temperature |-> TRUE]]
    /\ embeddings = TRUE
    /\ openai_api_key = TRUE
    /\ pdf_records = [t \in Tenants |-> [f \in Files |-> 0]]
    /\ \E w \in DiskStates : disk = [t \in Tenants |->
                                       IF t = 1 THEN w ELSE EmptyDisk]
    /\ agents = << >>
    /\ last_used = << >>
    /\ next_agent = 1
    /\ now = 0
    /\ task = [c \in Callers |-> IdleTask]
    /\ result = [c \in Callers |-> NoResult]
    /\ call = NoCall

\* One whole invocation of build_or_update_vector_store(company, embeddings,
\* rebuild=rebuild).
build_or_update_vector_store(t, rebuild, fl) ==
    /\ company[t].exists
    /\ LET r == Sync(disk[t], rebuild, fl)
       IN /\ Admissible(r, fl)
          /\ disk' = [disk EXCEPT ![t] = r.w]
          /\ call' = SyncCall(t, rebuild, r, disk[t])
    /\ UNCHANGED <<company, embeddings, openai_api_key, pdf_records, agents,
                   last_used, next_agent, now, task, result>>

NextSync ==
    \E t \in Tenants, rebuild \in BOOLEAN, fl \in Faults :
        build_or_update_vector_store(t, rebuild, fl)

SpecSync == InitSync /\ [][NextSync]_vars

\* Two callers polling the vector store status concurrently, with uploads
\* in between that may fail at the embeddings provider.
NextRace ==
    \/ UploadPdfs
    \/ \E c \in Callers, t \in Tenants : get_vector_store_status_start(c, t)
    \/ \E c \in Callers, fl \in {"none", "embed"} :
          get_vector_store_status_resume(c, fl)

SpecRace == Init /\ [][NextRace]_vars

\* The same two callers with PDFs being deleted in between.
NextDeleteRace ==
    \/ NextRace
    \/ \E t \in Tenants, f \in Files, fl \in {"none", "embed"} :
          remove_pdf(t, f, fl)

SpecDeleteRace == Init /\ [][NextDeleteRace]_vars

\* Every PDF on disk is in the persisted ledger and the chunks of its present
\* text are in the persisted index.
Converged(w) ==
    \A f \in Files :
        w.pdf_files[f] # NoFile =>
            /\ f \in load_processed_files(w)
            /\ w.pdf_files[f] \in Texts
            /\ w.index_faiss.docs[<<f, w.pdf_files[f]>>] >= 1

\* Uploads and overlapping status syncs, and a status sync that nothing
\* overlaps.
NextConverge ==
    \/ NextRace
    \/ \E t \in Tenants : get_vector_store_status(t, "none")

SpecConverge == Init /\ [][NextConverge]_vars

\* ------------------------------------------------------------ claims ----
Ledger(t) == load_processed_files(disk[t])

Readable(w) == {f \in Files : w.pdf_files[f] \in Texts}

\* The files the last invocation ran extract_text_from_pdf on.
Batch == call.extracted \cup call.failed

\* C1: whenever sync returns successfully, the returned index is non-empty
\* and holds the documents of every PDF now in the company directory whose
\* extraction does not fail.
C1_ResultGuarantee ==
    (call.kind = "sync" /\ call.outcome = "ok") =>
        /\ DocCount(call.store) > 0
        /\ \A f \in Readable(disk[call.company]) :
              call.store[<<f, disk[call.company].pdf_files[f]>>] >= 1

\* C2: index and ledger cover exactly {a}; b is added and extracts without
\* raising; a successful sync with rebuild=False then leaves the ledger
\* {a, b}, a document count of chunks(a) + chunks(b), and extracts only b.
C2_IncrementalCorrectness ==
    [][\A t \in Tenants, a \in Files, b \in Files :
        ( /\ a # b
          /\ disk[t].pdf_files[a] \in Texts
          /\ ~ExtractRaises(disk[t].pdf_files[b])
          /\ disk[t].index_faiss.exists
          /\ disk[t].index_faiss.docs = DocsOf(disk[t], {a})
          /\ disk[t].processed_files.exists
          /\ disk[t].processed_files.files = {a}
          /\ disk'[t].pdf_files = disk[t].pdf_files
          /\ call'.kind = "sync" /\ call'.company = t
          /\ ~call'.rebuild /\ call'.outcome = "ok" )
        =>
        ( /\ load_processed_files(disk'[t]) = {a, b}
          /\ DocCount(disk'[t].index_faiss.docs)
                = NumDocs(disk[t].pdf_files[a]) + NumDocs(disk[t].pdf_files[b])
          /\ call'.extracted = {b}
          /\ call'.failed = {} )
      ]_vars

\* C3: a successful forced rebuild leaves a ledger of exactly the files in
\* the company directory and an index of exactly their documents: no
\* document of a deleted file, no document of an earlier text of a file.
C3_RebuildCorrectness ==
    (call.kind = "sync" /\ call.path = "rebuild" /\ call.outcome = "ok") =>
        LET w == disk[call.company]
        IN /\ w.processed_files.exists
           /\ w.processed_files.files = Glob(w)
           /\ w.index_faiss.exists
           /\ w.index_faiss.docs = DocsOf(w, Readable(w))
           /\ call.store = w.index_faiss.docs
           /\ Sources(w.index_faiss.docs) \subseteq Glob(w)

\* A forced rebuild succeeded for a company whose index held documents of
\* a file that had been deleted.
C3_Witness ==
    /\ call.kind = "sync" /\ call.rebuild /\ call.outcome = "ok"
    /\ call.stale
    /\ Glob(disk[call.company]) # {}

\* C4: a sync that follows a successful sync of the same company with the
\* same arguments and no change of the filesystem in between is a no-op:
\* document count and ledger are what they were before it.
C4_Idempotence ==
    [][\A t \in Tenants, fl \in Faults :
        ( /\ call.kind = "sync" /\ call.company = t /\ call.outcome = "ok"
          /\ \/ ~call.rebuild /\ ask_question(t, fl)
             \/ ~call.rebuild /\ get_vector_store_status(t, fl)
             \/ call.rebuild /\ rebuild_vector_store(t, fl) )
        =>
        ( /\ DocCount(disk'[t].index_faiss.docs)
                = DocCount(disk[t].index_faiss.docs)
          /\ disk'[t].processed_files = disk[t].processed_files )
      ]_vars

\* A sync found nothing to do on the index and ledger an earlier sync left.
C4_Witness ==
    /\ call.kind = "sync" /\ call.outcome = "ok" /\ call.path = "noop"
    /\ Ledger(call.company) # {}

\* C5 as claimed: sync fails with NotFound exactly when the company
\* directory is missing or holds no PDF.
C5_NotFoundExactly ==
    call.kind = "sync" =>
        (call.outcome = "NotFound"
            <=> (~disk[call.company].company_pdf_dir
                   \/ Glob(disk[call.company]) = {}))

\* C5 as amended: ... exactly when os.makedirs of the index directory did
\* not raise and the company directory is missing or holds no PDF; when
\* os.makedirs raises, the error is the Runtime one.
C5_NotFoundUnlessMkdirFails ==
    call.kind = "sync" =>
        /\ call.outcome = "NotFound"
              <=> ( /\ call.fault # "mkdir"
                    /\ \/ ~disk[call.company].company_pdf_dir
                       \/ Glob(disk[call.company]) = {} )
        /\ call.fault = "mkdir" => call.outcome = "Runtime"

\* A forced rebuild of a company without PDFs failed with NotFound.
C5_Witness ==
    /\ call.kind = "sync" /\ call.rebuild /\ call.outcome = "NotFound"
    /\ disk[call.company].company_pdf_dir

\* C6: a file whose extraction raised during a successful sync is not in
\* the ledger that sync leaves.
C6_LedgerOnlyEmbedded ==
    (call.kind = "sync" /\ call.outcome = "ok") =>
        call.failed \cap Ledger(call.company) = {}

\* C7: when one PDF of a batch raises in extraction and another has text,
\* and no other operation fails, sync succeeds with a non-empty index that
\* holds the documents of the readable PDFs; the failures are the logged
\* ones.
C7_ExtractionFaultTolerance ==
    ( /\ call.kind = "sync" /\ call.fault = "none"
      /\ \E f \in Batch : ExtractRaises(disk[call.company].pdf_files[f])
      /\ \E f \in Batch : disk[call.company].pdf_files[f] \in Texts )
    =>
    ( /\ call.outcome = "ok"
      /\ DocCount(call.store) > 0
      /\ call.failed
            = {f \in Batch : ExtractRaises(disk[call.company].pdf_files[f])}
      /\ \A f \in Batch \cap Readable(disk[call.company]) :
            /\ call.store[<<f, disk[call.company].pdf_files[f]>>] >= 1
            /\ disk[call.company].index_faiss.docs
                   [<<f, disk[call.company].pdf_files[f]>>] >= 1 )

\* A sync succeeded although the extraction of one of its files raised.
C7_Witness ==
    /\ call.kind = "sync" /\ call.outcome = "ok"
    /\ call.failed # {} /\ call.extracted # {}

\* C8: the incremental path leaves a new file whose extraction raised out
\* of the ledger, and the next sync of the company that gets as far as
\* listing the directory runs the extraction on that file again while the
\* file is still there.
C8_FailedNewFileRetried ==
    [][\A t \in Tenants :
        /\ (call'.kind = "sync" /\ call'.company = t /\ call'.path = "update")
              => call'.failed \cap load_processed_files(disk'[t]) = {}
        /\ ( /\ call.kind = "sync" /\ call.company = t /\ call.path = "update"
             /\ call'.kind = "sync" /\ call'.company = t
             /\ call'.fault \notin {"mkdir", "load"} )
              => \A f \in call.failed :
                    disk'[t].pdf_files[f] # NoFile
                       => f \in call'.extracted \cup call'.failed
      ]_vars

\* An incremental sync returned after the extraction of a new file raised.
C8_Witness ==
    /\ call.kind = "sync" /\ call.path = "update" /\ call.outcome = "ok"
    /\ call.failed # {}
    /\ call.failed \cap Ledger(call.company) = {}

\* C9 as claimed: an agent created at time T is returned as the same cached
\* object by a get_agent at T + 3599, and a get_agent at T + 3601 treats the
\* entry as absent: it evicts it and goes on to construct a new agent.
C9_AgentTTL ==
    [][\A c \in Callers, t \in Tenants, fl \in Faults :
        (t \in DOMAIN agents /\ get_agent(c, t, fl)) =>
            /\ now = agents[t].created_at + AGENT_TTL - 1
                  => /\ result'[c].kind = "hit"
                     /\ result'[c].agent = agents[t].agent
                     /\ agents' = agents
            /\ now = agents[t].created_at + AGENT_TTL + 1
                  => /\ result'[c].kind \in {"pending", "created", "failed"}
                     /\ result'[c].expired
                     /\ t \in DOMAIN agents'
                           => agents'[t].agent # agents[t].agent
      ]_vars

\* C9 as amended: ... and a get_agent at T + 3601 treats the entry as absent
\* when the entry was last used at least 3600 seconds before; every hit
\* restarts the 3600 seconds.
C9_AgentTTLSinceLastUse ==
    [][\A c \in Callers, t \in Tenants, fl \in Faults :
        (t \in DOMAIN agents /\ get_agent(c, t, fl)) =>
            /\ now = agents[t].created_at + AGENT_TTL - 1
                  => /\ result'[c].kind = "hit"
                     /\ result'[c].agent = agents[t].agent
                     /\ agents' = agents
            /\ ( /\ now = agents[t].created_at + AGENT_TTL + 1
                 /\ now - last_used[t] >= AGENT_TTL )
                  => /\ result'[c].kind \in {"pending", "created", "failed"}
                     /\ result'[c].expired
                     /\ t \in DOMAIN agents'
                           => agents'[t].agent # agents[t].agent
      ]_vars

\* At T + 3601 a get_agent evicted the entry and stored a new agent.
C9_Witness ==
    \E c \in Callers, t \in DOMAIN agents :
        /\ result[c].kind = "created" /\ result[c].company = t
        /\ result[c].expired
        /\ now = AGENT_TTL + 1
        /\ agents[t].created_at = now
        /\ agents[t].agent = result[c].agent

\* C10: two get_agent calls for the same company that overlap in time and
\* both begin on an absent entry construct one agent between them: when both
\* have returned, they have returned the same agent.
C10_SingleConstruction ==
    \A c1 \in Callers, c2 \in Callers :
        ( /\ c1 # c2
          /\ result[c1].kind = "created" /\ result[c1].raced
          /\ result[c2].kind = "created" /\ result[c2].raced
          /\ result[c1].company = result[c2].company )
        => result[c1].agent = result[c2].agent

\* C11: force_remove_agent and force_update_agent on a company with a cache
\* entry remove the entry at once, whatever its age, and return true, and
\* the caller's next get_agent is not a hit; on a company without an entry
\* they return false and change neither map.
C11_ForceRemove ==
    [][\A c \in Callers, t \in Tenants :
        /\ (force_remove_agent(c, t) \/ force_update_agent(c, t)) =>
              IF t \in DOMAIN agents
              THEN /\ t \notin DOMAIN agents'
                   /\ t \notin DOMAIN last_used'
                   /\ result'[c].kind = "returned_true"
                   /\ \A x \in (DOMAIN agents) \ {t} :
                         x \in DOMAIN agents' /\ agents'[x] = agents[x]
              ELSE /\ agents' = agents
                   /\ last_used' = last_used
                   /\ result'[c].kind = "returned_false"
        /\ ( /\ result[c].kind = "returned_true" /\ result[c].company = t
             /\ \E fl \in Faults : get_agent(c, t, fl) )
              => result'[c].kind \in {"pending", "created", "failed"}
      ]_vars

\* An entry used less than 3600 seconds before was removed by force.
C11_Witness ==
    \E c \in Callers :
        /\ result[c].kind = "returned_true"
        /\ result[c].company \notin DOMAIN agents
        /\ now = 1


\* C12: whenever a handler's build_or_update_vector_store call takes the
\* rebuild path for a company and succeeds (rebuild forced, index file
\* missing, or empty index healed), a cache entry the company had before
\* is gone when the handler returns.
C12_RebuildInvalidatesAgent ==
    [][\A t \in Tenants :
        ( /\ SyncHandler(t)
          /\ call'.kind = "sync" /\ call'.company = t
          /\ call'.path = "rebuild" /\ call'.outcome = "ok"
          /\ t \in DOMAIN agents )
        => t \notin DOMAIN agents'
      ]_vars



\* C13: when remove_company has returned its success message, the company's
\* PDF directory, its index directory and its agent cache entry are gone,
\* with or without an embeddings provider.
C13_RemoveCompanyCascades ==
    [][\A t \in Tenants :
         (\E fails \in RmtreeErrors : remove_company(t, fails)) =>
            /\ ~disk'[t].company_pdf_dir
            /\ ~disk'[t].vector_path
            /\ t \notin DOMAIN agents']_vars


\* C14: every failure of build_or_update_vector_store reaches its caller as
\* FileNotFoundError (NotFound), ValueError (Invalid) or RuntimeError
\* (Runtime), the failures of reading or writing processed_files.json
\* included.
C14_TypedErrors ==
    call.kind = "sync" =>
        call.outcome \in {"ok", "NotFound", "Invalid", "Runtime"}

\* C15: the ledger is written atomically with the index save: every step
\* that saves a company's index leaves a ledger naming every file whose
\* chunks the saved index holds.
C15_LedgerAtomicWithSave ==
    [][\A t \in Tenants :
         (disk'[t].index_faiss # disk[t].index_faiss
          /\ disk'[t].index_faiss.exists) =>
            Sources(disk'[t].index_faiss.docs) \subseteq
                load_processed_files(disk'[t])]_vars


\* C16: a reset for a company that has a cached agent reports success and
\* removes the company's cache entry, so the agent holding the earlier
\* dialogue memory answers no further question.
C16_ResetInvalidates ==
    [][\A c \in Callers, t \in Tenants :
         (reset_agent(c, t) /\ t \in DOMAIN agents) =>
            /\ result'[c].kind = "returned_true"
            /\ t \notin DOMAIN agents']_vars


\* An operation of caller c performed for company x: a sync by a handler,
\* get_agent (either half), force_remove_agent or force_update_agent.
OperationFor(c, x) ==
    \/ SyncHandler(x)
    \/ \E fl \in Faults : get_agent(c, x, fl)
    \/ task[c].company = x /\ \E fl \in Faults : get_agent_resume(c, fl)
    \/ force_remove_agent(c, x)
    \/ force_update_agent(c, x)

IndexAndLedgerKept(y) ==
    /\ disk'[y].index_faiss = disk[y].index_faiss
    /\ disk'[y].processed_files = disk[y].processed_files

CacheEntry(ag, y) == {ag[z] : z \in (DOMAIN ag) \cap {y}}

C19_RebuildPathIff ==
    [][\A t \in Tenants, rebuild \in BOOLEAN :
         ((\E fl \in Faults : build_or_update_vector_store(t, rebuild, fl))
          /\ call'.path \in {"rebuild", "update", "noop"}) =>
            (call'.path = "rebuild" <=>
                \/ rebuild
                \/ ~disk[t].index_faiss.exists
                \/ DocCount(disk[t].index_faiss.docs) = 0)]_vars


\* C20: after an incremental invocation that found new files returns
\* successfully, the persisted ledger is the previous ledger plus every new
\* file whose extraction did not raise, files without any chunk included.
C20_IncrementalLedger ==
    [][\A t \in Tenants :
         ((\E fl \in Faults : ask_question(t, fl)
                                 \/ get_vector_store_status(t, fl))
          /\ call'.path = "update" /\ call'.outcome = "ok") =>
            load_processed_files(disk'[t]) =
                load_processed_files(disk[t]) \cup call'.extracted]_vars


\* C21: an invocation that takes the rebuild path while no current PDF
\* yields a chunk fails with RuntimeError and leaves index.faiss and
\* processed_files.json as they were before the invocation.
C21_EmptyRebuildWritesNothing ==
    [][\A t \in Tenants, rebuild \in BOOLEAN :
         ((\E fl \in Faults : build_or_update_vector_store(t, rebuild, fl))
          /\ call'.path = "rebuild"
          /\ \A f \in Files : disk[t].pdf_files[f] \notin Texts) =>
            /\ call'.outcome = "Runtime"
            /\ disk'[t].index_faiss = disk[t].index_faiss
            /\ disk'[t].processed_files = disk[t].processed_files]_vars

C21_Witness ==
    /\ call.kind = "sync" /\ call.rebuild /\ call.path = "rebuild"
    /\ call.outcome = "Runtime" /\ call.fault = "none"
    /\ disk[1].pdf_files = [f \in Files |->
                                IF f = "A.pdf" THEN "bad" ELSE "blank"]
    /\ disk[1].index_faiss.exists
    /\ disk[1].index_faiss.docs # EmptyStore
    /\ disk[1].processed_files.exists


\* A step in which caller d's status sync saves over the save of the
\* concurrent sync that finished last: that sync (call) worked for the same
\* company on the same path and the same files as d, and both of them
\* embedded at least one file.
SecondSave(d, t) ==
    /\ task[d].pc = "syncing" /\ task[d].company = t
    /\ \E fl \in Faults : get_vector_store_status_resume(d, fl)
    /\ call.kind = "sync" /\ call.company = t /\ call.outcome = "ok"
    /\ call.path = task[d].path
    /\ call.extracted \cup call.failed = task[d].todo
    /\ disk[t].index_faiss.docs = call.store
    /\ call.store # task[d].store
    /\ call'.outcome = "ok"
    /\ disk'[t].index_faiss.docs = call'.store
    /\ \E f \in call'.extracted : disk[t].pdf_files[f] \in Texts

C23_DeletedFilePurged ==
    [][\A d \in Callers, t \in Tenants :
         (/\ task[d].pc = "syncing" /\ task[d].company = t
          /\ task[d].path = "update"
          /\ \E fl \in Faults : get_vector_store_status_resume(d, fl)) =>
            \A f \in Files :
               disk'[t].pdf_files[f] = NoFile =>
                  /\ f \notin Sources(disk'[t].index_faiss.docs)
                  /\ f \notin load_processed_files(disk'[t])]_vars


\* C24: a get_agent that finds an entry used less than agent_ttl ago (and no
\* other) is a hit: it returns the cached agent, constructs nothing, syncs
\* nothing and sets last_used to now; the age of the entry plays no part.
C24_HitRefreshes ==
    [][\A c \in Callers, t \in Tenants, fl \in Faults :
        (t \in DOMAIN agents /\ get_agent(c, t, fl)) =>
            LET used == IF t \in DOMAIN last_used THEN last_used[t] ELSE 0
            IN /\ now - used < AGENT_TTL =>
                     /\ result'[c].kind = "hit"
                     /\ result'[c].agent = agents[t].agent
                     /\ agents' = agents
                     /\ next_agent' = next_agent
                     /\ disk' = disk
                     /\ task' = task
                     /\ last_used'[t] = now
               /\ result'[c].kind = "hit" => now - used < AGENT_TTL
      ]_vars

\* A hit on an entry older than agent_ttl that was used in between.
C24_Witness ==
    \E c \in Callers, t \in DOMAIN agents :
        /\ result[c].kind = "hit" /\ result[c].company = t
        /\ agents[t].created_at = 0
        /\ now = AGENT_TTL + 1
        /\ last_used[t] = now


\* C25: right after a get_agent has stored a new entry and run the sweep,
\* the cache holds no entry that get_agent would treat as expired, that is,
\* none with now - last_used >= agent_ttl.
C25_SweepEvictsAllExpired ==
    [][\A c \in Callers :
        (/\ \/ \E t \in Tenants, fl \in Faults : get_agent(c, t, fl)
            \/ \E fl \in Faults : get_agent_resume(c, fl)
         /\ result'[c].kind = "created") =>
            \A y \in DOMAIN agents' :
                /\ y \in DOMAIN last_used'
                /\ now - last_used'[y] < AGENT_TTL]_vars


\* C26: a get_agent for a company whose model_name or temperature is unset,
\* or without an embeddings provider or an API key, fails before
\* build_or_update_vector_store is called, so the company's index and
\* ledger are unchanged; and after any failed get_agent the cache holds no
\* entry for that company.
C26_FailFast ==
    [][\A c \in Callers, t \in Tenants :
        /\ ((\E fl \in Faults : get_agent(c, t, fl))
            /\ ~(t \in DOMAIN agents
                 /\ now - (IF t \in DOMAIN last_used THEN last_used[t]
                           ELSE 0) < AGENT_TTL)
            /\ (~company[t].model_name \/ ~company[t].temperature
                \/ ~embeddings \/ ~openai_api_key)) =>
               /\ result'[c].kind = "failed"
               /\ disk' = disk
        /\ ((\/ \E fl \in Faults : get_agent(c, t, fl)
             \/ task[c].company = t /\ \E fl \in Faults : get_agent_resume(c, fl))
            /\ result'[c].kind = "failed" /\ result'[c].company = t) =>
               t \notin DOMAIN agents'
      ]_vars


\* C27: when an upload or a removal of a PDF has changed a company's PDFs
\* and returned, the cache holds no agent for that company - every agent in
\* it was built on the index from before the change - whether the rebuild
\* inside the request passed or failed.
C27_ChangeInvalidatesAgent ==
    [][\A t \in Tenants :
        (/\ \/ \E f \in Files, c \in Contents, fl \in Faults :
                  upload_pdf(t, f, c, fl)
            \/ \E f \in Files, fl \in Faults : remove_pdf(t, f, fl)
         /\ disk'[t].pdf_files # disk[t].pdf_files) =>
            t \notin DOMAIN agents']_vars

\* C28: in every reachable state of the agent cache, whatever the interleaving
\* of get_agent, force_remove_agent, force_update_agent and the sweep, the
\* ids of the agents map are the ids of the last_used map, so no id the sweep
\* would pick is without an agent entry.
C28_MapsAgree ==
    /\ DOMAIN agents = DOMAIN last_used
    /\ \A x \in DOMAIN last_used :
          now - last_used[x] > AGENT_TTL => x \in DOMAIN agents

\* A second agent has been created after the TTL has passed and the sweep or
\* a forced removal has left it alone in both maps.
C28_Witness ==
    /\ now > AGENT_TTL
    /\ DOMAIN agents = {1}
    /\ DOMAIN last_used = {1}
    /\ agents[1].agent >= 2
    /\ last_used[1] = now


\* C30: for a tenant with a cached agent and a company record get_agent_info
\* returns the record with the creation and last-used times; it fails never,
\* and returns None only without a cache entry or without a company record.
C30_AgentInfoReturned ==
    [][\A c \in Callers, t \in Tenants :
        get_agent_info(c, t) =>
            /\ result'[c].kind # "key_error"
            /\ (t \in DOMAIN agents /\ company[t].exists) =>
                  result'[c].kind = "info"
            /\ result'[c].kind = "none" =>
                  (t \notin DOMAIN agents \/ ~company[t].exists)]_vars


\* C29: once the PDF set of a tenant has stopped changing, no extraction fails
\* and no sync is in flight, one further sync with force_rebuild=false leaves
\* every PDF on disk in the persisted ledger with its chunks in the persisted
\* index, whatever uploads and concurrent syncs came before.
C29_Convergence ==
    [][\A t \in Tenants :
        (/\ get_vector_store_status(t, "none")
         /\ \A c \in Callers : task[c].pc = "idle"
         /\ \A f \in Files : disk[t].pdf_files[f] \in Texts \cup {NoFile}) =>
            Converged(disk'[t])]_vars


====
